---------------------------- MODULE Spec2Model ----------------------------
(***************************************************************************)
(* Resumable, checkpointed batch-embedding pipeline of dragon-codex        *)
(* (src/src/retrieval/pass_17_embed_all_chunks.py) with the file helpers   *)
(* it calls (src/src/utils/util_files_functions.py).                       *)
(*                                                                         *)
(* Durable state is what is on disk: the checkpoint JSON file, one         *)
(* temporary partial-results pickle and one permanent embeddings pickle    *)
(* per source.  A process is either a direct call of embed_file_resumable  *)
(* with a freshly constructed ImprovedCheckpoint, or a run of main().      *)
(* A kill can hit a running process between any two steps.                 *)
(***************************************************************************)
EXTENDS Integers, Sequences, FiniteSets, TLC

(* ------------------------------ bounds -------------------------------- *)
\* largest number of chunk records in a source file
MaxChunks == 3
\* largest batch_size handed to embed_file_resumable
MaxBatch == 2

(* ----------------------------- sources -------------------------------- *)
\* files_to_embed of main(), in its order (two of the seven sources)
files_to_embed == <<"book_chunks", "wiki_chunks_chronology">>

Files == {files_to_embed[i] : i \in 1..Len(files_to_embed)}

VARIABLES
    \* ---- disk and inputs
    ckptFile,        \* checkpoint_v2.json: absent, truncated, or the JSON of a state
    partialFile,     \* per source: the temporary partial-results pickle
    permFile,        \* per source: the permanent embeddings pickle
    nchunks,         \* per source: number of chunk records of the .jsonl file
    srcPresent,      \* per source: whether the .jsonl file exists
    batch_size,      \* the batch_size argument of every call
    \* ---- the running process
    pc,              \* position of the process ("idle": no process)
    mode,            \* "direct" (embed_file_resumable called directly) or "main"
    resetArg,        \* the reset argument main() was called with
    state,           \* checkpoint.state, in memory
    todo,            \* sources this process still has to call embed_file_resumable on
    start_from,      \* local of embed_file_resumable
    batch_idx,       \* loop variable of embed_file_resumable
    embeddings_data, \* local of embed_file_resumable: the partial-results map
    ret,             \* which return statement embed_file_resumable left by
    outcome,         \* how the last process ended
    \* ---- history of the current / last call of embed_file_resumable
    callFile,        \* its source
    sent,            \* chunk positions sent to the embedding service by this call
    reSent,          \* how many of them an earlier process had already embedded
    svcCalls,        \* service calls made by this call
    writes,          \* files written by this call
    stateAtCall,     \* checkpoint.state at entry of the call
    ckptAtCall,      \* checkpoint file at entry of the call
    partialAtCall,   \* partial file of the source at entry of the call
    ckptAtLoad,      \* checkpoint file as the process found it at start
    prevOutcome,     \* how the process before the current one ended
    diskAtBatch,     \* <<ckptFile, partialFile[f]>> at the start of the current batch
    everEmbedded     \* per source: positions the service has embedded, any process

procVars == <<pc, mode, resetArg, state, todo, start_from, batch_idx, embeddings_data, ret, outcome>>
diskVars == <<ckptFile, partialFile, permFile>>
inputVars == <<nchunks, srcPresent, batch_size>>
histVars == <<callFile, sent, reSent, svcCalls, writes, stateAtCall, ckptAtCall,
              partialAtCall, ckptAtLoad, prevOutcome, diskAtBatch, everEmbedded>>
vars == <<diskVars, inputVars, procVars, histVars>>

\* ---- one call of VectorStoreManager.embed_batch / embed_batch_parallel
\*      (src/src/utils/util_embedding.py); text k of the input list is k
VARIABLES
    eb_variant,      \* which of the two methods is called
    texts,           \* len(texts)
    eb_batch_size,   \* the batch_size argument
    max_workers,     \* the max_workers argument (parallel variant)
    eb_pc,           \* position of the call
    eb_i,            \* sequential: loop variable i; parallel: futures collected
    futures,         \* parallel: per batch "queued", "running", "done" or "failed"
    completion_order,\* parallel: batches in the order the workers finished them
    all_embeddings,  \* vectors collected so far (the vector of text k is k)
    avg_tokens_bound,\* whether the local avg_tokens has been assigned
    eb_error,        \* the exception the call left by ("none": it did not raise)
    total_tokens,    \* embed_batch: local total_tokens
    total_items,     \* embed_batch: local total_items
    avg_tokens,      \* local avg_tokens, the quotient num / den
    max_tokens,      \* local max_tokens
    token_counts     \* history: prompt_eval_count of the answer to each batch

tokenVars == <<total_tokens, total_items, avg_tokens, max_tokens, token_counts>>
ebVars == <<eb_variant, texts, eb_batch_size, max_workers, eb_pc, eb_i, futures,
            completion_order, all_embeddings, avg_tokens_bound, eb_error, tokenVars>>

\* the locals of the token statistics before they are assigned
NoTokens ==
    /\ total_tokens = 0
    /\ total_items = 0
    /\ avg_tokens = [num |-> 0, den |-> 0]
    /\ max_tokens = 0
    /\ token_counts = <<>>

\* no call of embed_batch is modelled
EmbedBatchIdle ==
    /\ eb_variant = "none"
    /\ texts = 0
    /\ eb_batch_size = 1
    /\ max_workers = 1
    /\ eb_pc = "idle"
    /\ eb_i = 0
    /\ futures = <<>>
    /\ completion_order = <<>>
    /\ all_embeddings = <<>>
    /\ avg_tokens_bound = FALSE
    /\ eb_error = "none"
    /\ NoTokens

\* ---- the text chunkers (src/src/utils/util_chunking_functions.py); a string
\*      is the sequence of its characters
VARIABLES
    environ,         \* the environment variables Config.__init__ reads
    paragraph,       \* the argument of split_paragraph_into_chunks
    w_pc,            \* position in split_paragraph_into_chunks
    start,           \* its local start
    chunks,          \* its local chunks
    starts,          \* history: start at the beginning of each loop iteration
    windows          \* history: per appended chunk, <<start, end, rule>>

windowVars == <<paragraph, w_pc, start, chunks, starts, windows>>

\* ---- split_into_paragraphs with group_paragraphs_into_chunks, the
\*      hierarchical chunker
VARIABLES
    document,        \* the argument text of split_into_paragraphs
    h_pc,            \* position in split_into_paragraphs / group_paragraphs_into_chunks
    paragraphs,      \* the stripped, non-empty paragraphs of the text
    para_idx,        \* paragraphs the loop of group_paragraphs_into_chunks has taken
    out_chunks,      \* chunks of group_paragraphs_into_chunks, then the returned list
    current_chunk,   \* its local current_chunk
    current_size,    \* its local current_size
    branches         \* history: the branches of the loop taken so far

hierVars == <<document, h_pc, paragraphs, para_idx, out_chunks, current_chunk,
              current_size, branches>>

\* ---- BookChunker.chunk_chapter and process_all_books (pass_08); a text is
\*      represented by its length
VARIABLES
    chapter,               \* the paragraphs of the chapter, each the list of the
                           \* lengths of its parts as re.split returns them
    b_pc,                  \* position in process_all_books / chunk_chapter
    b_i,                   \* paragraphs the loop of chunk_chapter has taken
    book_chunks,           \* lengths of the chunks of chunk_chapter, in order
    current_chunk_text,    \* lengths of the items of its local current_chunk_text
    current_chunk_length,  \* its local current_chunk_length
    output_file,           \* book_chunks.jsonl: whether written, and the lengths
    b_branches             \* history: the branches of the loop taken so far

bookVars == <<chapter, b_pc, b_i, book_chunks, current_chunk_text,
              current_chunk_length, output_file, b_branches>>

\* book_chunks.jsonl is not there
NoOutputFile == [exists |-> FALSE, sizes |-> <<>>]

\* process_all_books is not called
BookIdle ==
    /\ chapter = <<>>
    /\ b_pc = "idle"
    /\ b_i = 0
    /\ book_chunks = <<>>
    /\ current_chunk_text = <<>>
    /\ current_chunk_length = 0
    /\ output_file = NoOutputFile
    /\ b_branches = {}

chunkVars == <<environ, windowVars, hierVars, bookVars>>

\* an environment, for the specifications in which no chunker runs
NoEnviron ==
    [TARGET_TOKENS |-> 1, MAX_TOKENS |-> 1, OVERLAP_TOKENS |-> 0, CHARS_PER_TOKEN |-> 1]

\* split_paragraph_into_chunks is not called
WindowIdle ==
    /\ paragraph = <<>>
    /\ w_pc = "idle"
    /\ start = 0
    /\ chunks = <<>>
    /\ starts = <<>>
    /\ windows = <<>>

\* split_into_paragraphs is not called
HierIdle ==
    /\ document = <<>>
    /\ h_pc = "idle"
    /\ paragraphs = <<>>
    /\ para_idx = 0
    /\ out_chunks = <<>>
    /\ current_chunk = <<>>
    /\ current_size = 0
    /\ branches = {}

ChunkersIdle == environ = NoEnviron /\ WindowIdle /\ HierIdle /\ BookIdle

allVars == <<vars, ebVars, chunkVars>>

\* what the steps of one of the modelled programs leave alone
pipelineRest == <<ebVars, chunkVars>>
embedBatchRest == <<vars, chunkVars>>
windowRest == <<vars, ebVars, hierVars, bookVars>>
hierRest == <<vars, ebVars, windowVars, bookVars>>
bookRest == <<vars, ebVars, environ, windowVars, hierVars>>

(* --------------------------- small helpers ---------------------------- *)
InSeq(x, s) == \E i \in 1..Len(s) : s[i] = x

Min(a, b) == IF a < b THEN a ELSE b

\* keys of a stored map (a sequence of records in insertion order)
Keys(m) == {m[i].key : i \in 1..Len(m)}

\* a pickle file on disk: absent, or the map that was dumped into it
NoPickle == [kind |-> "absent", data |-> <<>>]

Pickle(m) == [kind |-> "pickle", data |-> m]

\* number of chunk records held by a pickle file (an absent file holds none)
Records(file) == Len(file.data)

(* ------------------------- ImprovedCheckpoint ------------------------- *)
\* _load_checkpoint, else branch, and the dictionary reset() assigns
FreshState ==
    [current_file |-> "None", current_file_progress |-> 0, completed_files |-> <<>>,
     total_chunks_embedded |-> 0, started_at |-> "None"]

\* the checkpoint file on disk: absent, truncated by a kill, or the JSON of a state
NoCheckpoint == [kind |-> "absent", data |-> FreshState]

Truncated == [kind |-> "corrupt", data |-> FreshState]

Json(st) == [kind |-> "json", data |-> st]

\* _load_checkpoint: the JSON on disk, or a fresh state when there is no file
\* (a truncated file makes json.load raise: see StartFails)
load_checkpoint(file) == IF file.kind = "absent" THEN FreshState ELSE file.data

start_file(st, filename) ==
    LET s1 == IF st.current_file # filename
              THEN [st EXCEPT !.current_file = filename, !.current_file_progress = 0]
              ELSE st
    IN  IF s1.started_at = "None" THEN [s1 EXCEPT !.started_at = "now"] ELSE s1

update_progress(st, chunks_completed) ==
    [st EXCEPT !.current_file_progress = chunks_completed,
               !.total_chunks_embedded = chunks_completed]

complete_file(st, filename) ==
    [st EXCEPT !.completed_files = IF InSeq(filename, @) THEN @ ELSE Append(@, filename),
               !.current_file = "None",
               !.current_file_progress = 0]

is_file_completed(st, filename) == InSeq(filename, st.completed_files)

get_file_progress(st, filename) ==
    IF is_file_completed(st, filename) THEN -1
    ELSE IF st.current_file = filename THEN st.current_file_progress
    ELSE 0

(* -------------------------- file helpers ------------------------------ *)
\* serialize_object(data, output_file, log: False): `log` carries an
\* annotation, not a default, so it is a required positional parameter;
\* a call that passes `nargs` positional arguments raises TypeError unless
\* nargs = 3, before anything is opened or written.
serialize_object(nargs) == IF nargs = 3 THEN "written" ELSE "TypeError"

\* the number of arguments of serialize_object(embeddings_data, temp_path)
PartialSaveArgs == 2

(* ----------------------- embed_file_resumable ------------------------- *)
\* start_from = (start_from // batch_size) * batch_size
AlignStart(p, bs) == (p \div bs) * bs

\* positions of chunks_to_process[batch_idx : batch_idx + batch_size]
BatchPositions(f, sf, bi, bs) == (sf + bi) .. (Min(sf + bi + bs, nchunks[f]) - 1)

\* embeddings_data[f"chunk_{actual_start_idx + i}"] = {...} for the batch, in order
RECURSIVE StoreBatch(_, _, _)
StoreBatch(m, lo, hi) ==
    IF lo > hi THEN m
    ELSE LET rec == [key |-> lo, chunk |-> lo]
             m1 == IF lo \in Keys(m)
                   THEN [i \in 1..Len(m) |-> IF m[i].key = lo THEN rec ELSE m[i]]
                   ELSE Append(m, rec)
         IN  StoreBatch(m1, lo + 1, hi)

(* ----------------------------- initial -------------------------------- *)
\* checkpoint.state when no process runs
NoState == FreshState

Init ==
    /\ ckptFile = NoCheckpoint
    /\ partialFile = [f \in Files |-> NoPickle]
    /\ permFile = [f \in Files |-> NoPickle]
    /\ nchunks \in [Files -> 0..MaxChunks]
    /\ srcPresent \in [Files -> BOOLEAN]
    /\ batch_size \in 1..MaxBatch
    /\ pc = "idle"
    /\ mode = "none"
    /\ resetArg = FALSE
    /\ state = NoState
    /\ todo = <<>>
    /\ start_from = 0
    /\ batch_idx = 0
    /\ embeddings_data = <<>>
    /\ ret = "none"
    /\ outcome = "none"
    /\ callFile = "None"
    /\ sent = <<>>
    /\ reSent = 0
    /\ svcCalls = 0
    /\ writes = {}
    /\ stateAtCall = NoState
    /\ ckptAtCall = NoCheckpoint
    /\ partialAtCall = NoPickle
    /\ ckptAtLoad = NoCheckpoint
    /\ prevOutcome = "none"
    /\ diskAtBatch = <<NoCheckpoint, NoPickle>>
    /\ everEmbedded = [f \in Files |-> {}]

(* ------------------------ process bookkeeping ------------------------- *)
\* the process is gone: its memory is lost, the disk stays
EndProcess(how) ==
    /\ pc' = "idle"
    /\ mode' = "none"
    /\ resetArg' = FALSE
    /\ state' = NoState
    /\ todo' = <<>>
    /\ start_from' = 0
    /\ batch_idx' = 0
    /\ embeddings_data' = <<>>
    /\ ret' = "none"
    /\ outcome' = how

\* entry of embed_file_resumable(f, ...) with checkpoint.state = st
EnterCall(f, st) ==
    /\ callFile' = f
    /\ sent' = <<>>
    /\ reSent' = 0
    /\ svcCalls' = 0
    /\ writes' = {}
    /\ stateAtCall' = st
    /\ ckptAtCall' = ckptFile
    /\ partialAtCall' = partialFile[f]
    /\ diskAtBatch' = <<ckptFile, partialFile[f]>>


(* ------------------------- starting a process ------------------------- *)
\* A harness constructs ImprovedCheckpoint(config) and calls
\* embed_file_resumable(f, ...) with it.
Invoke(f) ==
    /\ pc = "idle"
    /\ ckptFile.kind # "corrupt"
    /\ pc' = "load"
    /\ mode' = "direct"
    /\ resetArg' = FALSE
    /\ state' = load_checkpoint(ckptFile)
    /\ todo' = <<f>>
    /\ outcome' = "none"
    /\ ckptAtLoad' = ckptFile
    /\ prevOutcome' = outcome
    /\ EnterCall(f, load_checkpoint(ckptFile))
    /\ UNCHANGED <<start_from, batch_idx, embeddings_data, ret, everEmbedded>>
    /\ UNCHANGED <<diskVars, inputVars>>
    /\ UNCHANGED pipelineRest

\* python pass_17_embed_all_chunks.py [--reset]: main(reset) constructs the
\* checkpoint first.
MainStart(reset) ==
    /\ pc = "idle"
    /\ ckptFile.kind # "corrupt"
    /\ pc' = "main_reset"
    /\ mode' = "main"
    /\ resetArg' = reset
    /\ state' = load_checkpoint(ckptFile)
    /\ outcome' = "none"
    /\ ckptAtLoad' = ckptFile
    /\ prevOutcome' = outcome
    /\ UNCHANGED <<todo, start_from, batch_idx, embeddings_data, ret>>
    /\ UNCHANGED <<callFile, sent, reSent, svcCalls, writes, stateAtCall, ckptAtCall,
                   partialAtCall, diskAtBatch, everEmbedded>>
    /\ UNCHANGED <<diskVars, inputVars>>
    /\ UNCHANGED pipelineRest

\* json.load of a checkpoint file that a kill left truncated raises
\* JSONDecodeError in ImprovedCheckpoint.__init__: the process ends at once.
StartFails ==
    /\ pc = "idle"
    /\ ckptFile.kind = "corrupt"
    /\ EndProcess("JSONDecodeError")
    /\ ckptAtLoad' = ckptFile
    /\ prevOutcome' = outcome
    /\ UNCHANGED <<callFile, sent, reSent, svcCalls, writes, stateAtCall, ckptAtCall,
                   partialAtCall, diskAtBatch, everEmbedded>>
    /\ UNCHANGED <<diskVars, inputVars>>
    /\ UNCHANGED pipelineRest

(* -------------------------------- main -------------------------------- *)
\* main line 328 assigns reset = True, whatever the argument was
EffectiveReset(reset) == TRUE

\* Variant of reset(): the new dictionary is assigned, save_checkpoint is
\* not called.
MainReset_NotSaved ==
    /\ pc = "main_reset"
    /\ state' = IF EffectiveReset(resetArg) THEN FreshState ELSE state
    /\ pc' = "main_classify"
    /\ UNCHANGED <<mode, resetArg, todo, start_from, batch_idx, embeddings_data, ret, outcome>>
    /\ UNCHANGED <<diskVars, inputVars, histVars>>
    /\ UNCHANGED pipelineRest

\* if reset: checkpoint.reset()   (reset() saves the checkpoint)
MainReset ==
    /\ pc = "main_reset"
    /\ IF EffectiveReset(resetArg)
       THEN /\ state' = FreshState
            /\ ckptFile' = Json(FreshState)
       ELSE UNCHANGED <<state, ckptFile>>
    /\ pc' = "main_classify"
    /\ UNCHANGED <<mode, resetArg, todo, start_from, batch_idx, embeddings_data, ret, outcome>>
    /\ UNCHANGED <<partialFile, permFile, inputVars, histVars>>
    /\ UNCHANGED pipelineRest

\* the status loop of main: pending_files in order, and current_file_info
\* (the last source whose progress is > 0)
RECURSIVE PendingFrom(_, _)
PendingFrom(st, i) ==
    IF i > Len(files_to_embed) THEN <<>>
    ELSE IF get_file_progress(st, files_to_embed[i]) = 0
         THEN <<files_to_embed[i]>> \o PendingFrom(st, i + 1)
         ELSE PendingFrom(st, i + 1)

RECURSIVE CurrentFrom(_, _)
CurrentFrom(st, i) ==
    IF i = 0 THEN <<>>
    ELSE IF get_file_progress(st, files_to_embed[i]) > 0
         THEN <<files_to_embed[i]>>
         ELSE CurrentFrom(st, i - 1)

\* the calls main makes: the in-progress source first, then the pending ones
MainCalls(st) == CurrentFrom(st, Len(files_to_embed)) \o PendingFrom(st, 1)

MainClassify ==
    /\ pc = "main_classify"
    /\ IF MainCalls(state) = <<>>
       THEN /\ EndProcess("all_done")
            /\ UNCHANGED histVars
       ELSE /\ todo' = MainCalls(state)
            /\ pc' = "load"
            /\ EnterCall(Head(MainCalls(state)), state)
            /\ UNCHANGED <<mode, resetArg, state, start_from, batch_idx, embeddings_data,
                           ret, outcome, ckptAtLoad, prevOutcome, everEmbedded>>
    /\ UNCHANGED <<diskVars, inputVars>>
    /\ UNCHANGED pipelineRest

(* ----------------------- embed_file_resumable ------------------------- *)
\* chunks = load_line_by_line(source_path)
LoadChunks ==
    /\ pc = "load"
    /\ IF srcPresent[Head(todo)]
       THEN /\ pc' = "check"
            /\ UNCHANGED <<mode, resetArg, state, todo, start_from, batch_idx,
                           embeddings_data, ret, outcome>>
       ELSE EndProcess("FileNotFoundError")
    /\ UNCHANGED <<diskVars, inputVars, histVars>>
    /\ UNCHANGED pipelineRest

\* Variant of lines 187-208: checkpoint.start_file is called before the
\* completed check instead of after it.
CheckResume_StartsFirst ==
    /\ pc = "check"
    /\ LET f == Head(todo)
           progress == get_file_progress(state, f)
       IN  /\ state' = start_file(state, f)
           /\ ckptFile' = Json(state')
           /\ writes' = writes \cup {"checkpoint"}
           /\ IF progress = -1
              THEN /\ pc' = "returned"
                   /\ ret' = "skipped"
              ELSE /\ pc' = "slice"
                   /\ ret' = ret
           /\ start_from' = 0
           /\ embeddings_data' = <<>>
    /\ UNCHANGED <<mode, resetArg, todo, batch_idx, outcome>>
    /\ UNCHANGED <<partialFile, permFile, inputVars>>
    /\ UNCHANGED <<callFile, sent, reSent, svcCalls, stateAtCall, ckptAtCall, partialAtCall,
                   ckptAtLoad, prevOutcome, diskAtBatch, everEmbedded>>
    /\ UNCHANGED pipelineRest

\* lines 187-205: the completed check, the alignment, the partial file
CheckResume ==
    /\ pc = "check"
    /\ LET f == Head(todo)
           progress == get_file_progress(state, f)
           aligned == AlignStart(progress, batch_size)
       IN  IF progress = -1
           THEN /\ pc' = "returned"
                /\ ret' = "skipped"
                /\ UNCHANGED <<start_from, embeddings_data>>
           ELSE /\ pc' = "start"
                /\ ret' = ret
                /\ IF aligned > 0 /\ partialFile[f].kind # "absent"
                   THEN /\ start_from' = aligned
                        /\ embeddings_data' = partialFile[f].data
                   ELSE /\ start_from' = 0
                        /\ embeddings_data' = <<>>
    /\ UNCHANGED <<mode, resetArg, state, todo, batch_idx, outcome>>
    /\ UNCHANGED <<diskVars, inputVars, histVars>>
    /\ UNCHANGED pipelineRest

\* checkpoint.start_file(filename): mutates the state and saves it
StartFile ==
    /\ pc = "start"
    /\ state' = start_file(state, Head(todo))
    /\ ckptFile' = Json(state')
    /\ writes' = writes \cup {"checkpoint"}
    /\ pc' = "slice"
    /\ UNCHANGED <<mode, resetArg, todo, start_from, batch_idx, embeddings_data, ret, outcome>>
    /\ UNCHANGED <<partialFile, permFile, inputVars>>
    /\ UNCHANGED <<callFile, sent, reSent, svcCalls, stateAtCall, ckptAtCall, partialAtCall,
                   ckptAtLoad, prevOutcome, diskAtBatch, everEmbedded>>
    /\ UNCHANGED pipelineRest

\* lines 211-220: chunks_to_process = chunks[start_from:]; an empty slice
\* completes the file and returns
Slice ==
    /\ pc = "slice"
    /\ IF start_from >= nchunks[Head(todo)]
       THEN /\ state' = complete_file(state, Head(todo))
            /\ ckptFile' = Json(state')
            /\ writes' = writes \cup {"checkpoint"}
            /\ pc' = "returned"
            /\ ret' = "empty"
            /\ UNCHANGED <<batch_idx, diskAtBatch>>
       ELSE /\ pc' = "embed"
            /\ batch_idx' = 0
            /\ diskAtBatch' = <<ckptFile, partialFile[Head(todo)]>>
            /\ UNCHANGED <<state, ckptFile, writes, ret>>
    /\ UNCHANGED <<mode, resetArg, todo, start_from, embeddings_data, outcome>>
    /\ UNCHANGED <<partialFile, permFile, inputVars>>
    /\ UNCHANGED <<callFile, sent, reSent, svcCalls, stateAtCall, ckptAtCall, partialAtCall,
                   ckptAtLoad, prevOutcome, everEmbedded>>
    /\ UNCHANGED pipelineRest

\* lines 235-262: manager.embed_batch returns; the records of the batch go
\* into embeddings_data under chunk_<actual_start_idx + i>
EmbedOk ==
    /\ pc = "embed"
    /\ LET f == Head(todo)
           batch == BatchPositions(f, start_from, batch_idx, batch_size)
           lo == start_from + batch_idx
           hi == Min(lo + batch_size, nchunks[f]) - 1
       IN  /\ embeddings_data' = StoreBatch(embeddings_data, lo, hi)
           /\ sent' = sent \o [i \in 1..(hi - lo + 1) |-> lo + i - 1]
           /\ reSent' = reSent + Cardinality(batch \cap everEmbedded[f])
           /\ everEmbedded' = [everEmbedded EXCEPT ![f] = @ \cup batch]
    /\ svcCalls' = svcCalls + 1
    /\ pc' = "persist"
    /\ UNCHANGED <<mode, resetArg, state, todo, start_from, batch_idx, ret, outcome>>
    /\ UNCHANGED <<diskVars, inputVars>>
    /\ UNCHANGED <<callFile, writes, stateAtCall, ckptAtCall, partialAtCall, ckptAtLoad,
                   prevOutcome, diskAtBatch>>
    /\ UNCHANGED pipelineRest

\* Variant of the except branch: the handler checkpoints the end of the
\* failing batch before it re-raises.
EmbedRaise_SavesProgress ==
    /\ pc = "embed"
    /\ svcCalls' = svcCalls + 1
    /\ LET f == Head(todo)
           completed == Min(start_from + batch_idx + batch_size, nchunks[f])
       IN  ckptFile' = Json(update_progress(state, completed))
    /\ writes' = writes \cup {"checkpoint"}
    /\ EndProcess("service_error")
    /\ UNCHANGED <<partialFile, permFile, inputVars>>
    /\ UNCHANGED <<callFile, sent, reSent, stateAtCall, ckptAtCall, partialAtCall,
                   ckptAtLoad, prevOutcome, diskAtBatch, everEmbedded>>
    /\ UNCHANGED pipelineRest

\* lines 264-272: the service call raises; the handler prints and re-raises,
\* and main's handlers re-raise too: the process ends with the exception
EmbedRaise ==
    /\ pc = "embed"
    /\ svcCalls' = svcCalls + 1
    /\ EndProcess("service_error")
    /\ UNCHANGED <<diskVars, inputVars>>
    /\ UNCHANGED <<callFile, sent, reSent, writes, stateAtCall, ckptAtCall, partialAtCall,
                   ckptAtLoad, prevOutcome, diskAtBatch, everEmbedded>>
    /\ UNCHANGED pipelineRest

\* Variant of the persist step: the checkpoint is advanced to the end of the
\* batch (lines 279-280) before the partial file is saved (line 276).
PersistPartial_CheckpointFirst ==
    /\ pc = "persist"
    /\ LET f == Head(todo)
           completed == Min(start_from + batch_idx + batch_size, nchunks[f])
       IN  ckptFile' = Json(update_progress(state, completed))
    /\ writes' = writes \cup {"checkpoint"}
    /\ serialize_object(PartialSaveArgs) = "TypeError"
    /\ EndProcess("TypeError")
    /\ UNCHANGED <<partialFile, permFile, inputVars>>
    /\ UNCHANGED <<callFile, sent, reSent, svcCalls, stateAtCall, ckptAtCall, partialAtCall,
                   ckptAtLoad, prevOutcome, diskAtBatch, everEmbedded>>
    /\ UNCHANGED pipelineRest

\* Variant of the persist step: the exception of the save is swallowed and
\* the loop goes on to the next batch with nothing persisted.
PersistPartial_Swallowed ==
    /\ pc = "persist"
    /\ IF start_from + batch_idx + batch_size < nchunks[Head(todo)]
       THEN /\ batch_idx' = batch_idx + batch_size
            /\ pc' = "embed"
            /\ UNCHANGED <<mode, resetArg, state, todo, start_from, embeddings_data, ret, outcome>>
       ELSE EndProcess("TypeError")
    /\ UNCHANGED <<diskVars, inputVars, histVars>>
    /\ UNCHANGED pipelineRest

\* Variant of the persist step: the partial file is written, and the call
\* raises afterwards, before the checkpoint is advanced.
PersistPartial_WrittenThenRaises ==
    /\ pc = "persist"
    /\ partialFile' = [partialFile EXCEPT ![Head(todo)] = Pickle(embeddings_data)]
    /\ writes' = writes \cup {"partial"}
    /\ EndProcess("TypeError")
    /\ UNCHANGED <<ckptFile, permFile, inputVars>>
    /\ UNCHANGED <<callFile, sent, reSent, svcCalls, stateAtCall, ckptAtCall, partialAtCall,
                   ckptAtLoad, prevOutcome, diskAtBatch, everEmbedded>>
    /\ UNCHANGED pipelineRest

\* line 276: serialize_object(embeddings_data, temp_path), outside the try:
\* the call raises TypeError, nothing is written, and the exception leaves
\* embed_file_resumable and main.  Lines 278-301 (update_progress, the
\* permanent save, remove_file, complete_file) are never reached.
PersistPartial ==
    /\ pc = "persist"
    /\ serialize_object(PartialSaveArgs) = "TypeError"
    /\ EndProcess("TypeError")
    /\ UNCHANGED <<diskVars, inputVars, histVars>>
    /\ UNCHANGED pipelineRest

\* return 0, 0 (line 191 or 220) back to the caller
AfterReturn ==
    /\ pc = "returned"
    /\ IF mode = "direct"
       THEN /\ EndProcess(ret)
            /\ UNCHANGED histVars
       ELSE IF Len(todo) = 1
       THEN /\ EndProcess("main_end")
            /\ UNCHANGED histVars
       ELSE /\ todo' = Tail(todo)
            /\ pc' = "load"
            /\ ret' = "none"
            /\ EnterCall(todo[2], state)
            /\ UNCHANGED <<mode, resetArg, state, start_from, batch_idx, embeddings_data,
                           outcome, ckptAtLoad, prevOutcome, everEmbedded>>
    /\ UNCHANGED <<diskVars, inputVars>>
    /\ UNCHANGED pipelineRest

(* ------------------------------- kills -------------------------------- *)
\* the process is killed between two steps: the disk stays as it is
Kill ==
    /\ pc # "idle"
    /\ EndProcess("killed")
    /\ UNCHANGED <<diskVars, inputVars, histVars>>
    /\ UNCHANGED pipelineRest

\* the steps that call save_checkpoint
Saving ==
    \/ pc \in {"main_reset", "start"}
    \/ pc = "slice" /\ start_from >= nchunks[Head(todo)]

\* the process is killed inside save_checkpoint, after open(..., 'w') has
\* truncated the file and before json.dump has written it
KillInSave ==
    /\ Saving
    /\ ckptFile' = Truncated
    /\ EndProcess("killed")
    /\ UNCHANGED <<partialFile, permFile, inputVars, histVars>>
    /\ UNCHANGED pipelineRest

Next ==
    \/ \E f \in Files : Invoke(f)
    \/ \E reset \in BOOLEAN : MainStart(reset)
    \/ StartFails
    \/ MainReset
    \/ MainClassify
    \/ LoadChunks
    \/ CheckResume
    \/ StartFile
    \/ Slice
    \/ EmbedOk
    \/ EmbedRaise
    \/ PersistPartial
    \/ AfterReturn
    \/ Kill
    \/ KillInSave

\* the embedding pipeline alone: the other modelled code does not run
PipelineInit == Init /\ EmbedBatchIdle /\ ChunkersIdle

Spec == PipelineInit /\ [][Next]_allVars

\* the pipeline at rest, for the specifications of the other modelled code
PipelineIdle ==
    /\ Init
    /\ nchunks = [f \in Files |-> 0]
    /\ srcPresent = [f \in Files |-> FALSE]
    /\ batch_size = 1


(* ====================================================================== *)
(*                               Properties                               *)
(* ====================================================================== *)

\* the checkpoint file is readable and names a source as its current file
CheckpointNames(f) == ckptFile.kind = "json" /\ ckptFile.data.current_file = f

\* the last process has ended, and neither a kill, a failure of the embedding
\* service, a missing source file nor an unreadable checkpoint ended it
Undisturbed ==
    /\ pc = "idle"
    /\ outcome \notin {"none", "killed", "service_error", "FileNotFoundError", "JSONDecodeError"}

FullMap(f) == StoreBatch(<<>>, 0, nchunks[f] - 1)

\* C3: a run of embed_file_resumable over a source of N >= 1 chunks that is
\* left to itself (one run to completion, or the last of a chain of runs each
\* stopped after a batch and resumed) ends with the permanent output file
\* holding the same map: chunk_0 .. chunk_(N-1) in order, as one
\* uninterrupted run builds it.
C3_RunsEndWithTheSameFinalMap ==
    (Undisturbed /\ callFile \in Files /\ outcome # "skipped" /\ nchunks[callFile] >= 1)
        => permFile[callFile] = Pickle(FullMap(callFile))

\* C4: a call of embed_file_resumable for a source that is in completed_files
\* returns from the completed check, having made no service call, written no
\* file, and left checkpoint.state and the checkpoint file as they were.
C4_CompletedFileNoOp ==
    /\ (pc \in {"start", "slice", "embed", "persist", "returned"}
            /\ is_file_completed(stateAtCall, callFile))
        => (pc = "returned" /\ ret = "skipped")
    /\ (pc = "returned" /\ ret = "skipped")
        => /\ svcCalls = 0
           /\ sent = <<>>
           /\ writes = {}
           /\ state = stateAtCall
           /\ ckptFile = ckptAtCall
           /\ partialFile[callFile] = partialAtCall

\* C4 witness: a call on a completed source has just returned.
C4_Witness ==
    /\ pc = "returned"
    /\ ret = "skipped"
    /\ is_file_completed(stateAtCall, callFile)
    /\ ckptFile.kind = "json"

C8_ServiceErrorPersistsNothing ==
    outcome = "service_error"
        => /\ pc = "idle"
           /\ ckptFile = diskAtBatch[1]
           /\ partialFile[callFile] = diskAtBatch[2]
           /\ svcCalls = (Len(sent) \div batch_size) + 1
           /\ writes \subseteq {"checkpoint"}

\* C8 witness: a service call has raised in a call that had started the file.
C8_Witness ==
    /\ outcome = "service_error"
    /\ CheckpointNames(callFile)
    /\ svcCalls = 1

\* C9: a run of main without --reset that follows an interrupted or failed
\* run keeps what the checkpoint recorded: a source that was in
\* completed_files when the process started stays there and
\* embed_file_resumable does no work on it again.
C9_MainWithoutResetResumes ==
    (mode = "main" /\ resetArg = FALSE /\ pc # "main_reset"
            /\ prevOutcome \in {"killed", "service_error", "TypeError"})
        => \A f \in Files :
            is_file_completed(load_checkpoint(ckptAtLoad), f)
                => /\ is_file_completed(state, f)
                   /\ ~ (pc \in {"start", "slice", "embed", "persist"} /\ Head(todo) = f)

\* C10: a run that resumes a source of N chunks after a kill finds
\* current_file_progress = k * batch_size for the k batches that had been
\* checkpointed and, left to itself, sends to the service exactly the chunks
\* k * batch_size .. N-1, in order.
C10_ResumedRunSendsTheRest ==
    (Undisturbed /\ prevOutcome = "killed" /\ callFile \in Files
            /\ ckptAtLoad.kind = "json" /\ ckptAtLoad.data.current_file = callFile
            /\ mode = "none" /\ ~ is_file_completed(stateAtCall, callFile))
        => LET k0 == get_file_progress(stateAtCall, callFile)
           IN  /\ k0 % batch_size = 0
               /\ sent = [i \in 1..(nchunks[callFile] - k0) |-> k0 + i - 1]


\* C19: when a process ends with the missing-input error, the checkpoint file
\* is still the one the process found at its start: no reset, start_file,
\* update_progress or complete_file was saved before the error.
C19_MissingInputBeforeAnyWrite ==
    outcome = "FileNotFoundError" => ckptFile = ckptAtLoad

\* a direct call of embed_file_resumable on an absent source: the error is
\* raised at line 184, before start_file
C19_DirectCallWritesNothing ==
    [][(mode = "direct" /\ outcome' = "FileNotFoundError") => ckptFile' = ckptAtLoad']_allVars

\* main finds out that its second source is absent only when the first one
\* has been processed and recorded
C19_SecondSourceFoundLate ==
    /\ outcome = "FileNotFoundError"
    /\ callFile = files_to_embed[2]
    /\ ckptFile.kind = "json"
    /\ InSeq(files_to_embed[1], ckptFile.data.completed_files)

\* the status of a source as main derives it from get_file_progress (lines
\* 354-365): 0 not started, 1 in progress, 2 completed
StatusRank(file, f) ==
    LET progress == get_file_progress(load_checkpoint(file), f)
    IN  IF progress = -1 THEN 2 ELSE IF progress > 0 THEN 1 ELSE 0

\* C20: unless a reset was asked for, no step takes the status of a source in
\* the checkpoint backwards (not started, in progress, completed), so a
\* source in completed_files stays there.
C20_StatusOnlyMovesForward ==
    [][(/\ ckptFile.kind # "corrupt"
        /\ ckptFile'.kind # "corrupt"
        /\ ~(pc = "main_reset" /\ resetArg))
            => \A f \in Files : StatusRank(ckptFile', f) >= StatusRank(ckptFile, f)]_allVars

\* the same for the steps that are not the reset step of main
C20_ForwardOutsideMainReset ==
    [][(/\ ckptFile.kind # "corrupt"
        /\ ckptFile'.kind # "corrupt"
        /\ pc # "main_reset")
            => \A f \in Files : StatusRank(ckptFile', f) >= StatusRank(ckptFile, f)]_allVars

\* a checkpoint in which a source is in progress
C20_SomeSourceInProgress ==
    ckptFile.kind = "json" /\ \E f \in Files : StatusRank(ckptFile, f) = 1

\* what this code leaves on disk and in memory, whatever the runs were: no
\* permanent file and no partial file is ever written, the checkpoint never
\* records a progress above 0, and no call starts above position 0
NothingBeyondTheFirstBatch ==
    /\ \A f \in Files : permFile[f] = NoPickle /\ partialFile[f] = NoPickle
    /\ ckptFile.data.current_file_progress = 0
    /\ ckptFile.data.total_chunks_embedded = 0
    /\ state.current_file_progress = 0
    /\ start_from = 0
    /\ batch_idx = 0

\* a source with chunks is never in completed_files
NoNonEmptySourceCompleted ==
    \A f \in Files :
        (ckptFile.kind = "json" /\ is_file_completed(ckptFile.data, f)) => nchunks[f] = 0

\* C22: after a batch the checkpoint's total_chunks_embedded counts the chunks
\* embedded so far; in particular, when a process has ended by itself, the
\* total is not smaller than the number of chunks its last call had embedded.
C22_TotalCountsEmbeddedChunks ==
    (Undisturbed /\ callFile \in Files /\ ckptFile.kind = "json")
        => ckptFile.data.total_chunks_embedded >= Len(sent)

\* C23: a process that calls embed_file_resumable on a source of N >= 1
\* chunks and is neither killed nor failed by the service ends with the
\* source Completed in the checkpoint.
C23_UndisturbedCallCompletes ==
    (Undisturbed /\ callFile \in Files /\ nchunks[callFile] >= 1)
        => (ckptFile.kind = "json" /\ is_file_completed(ckptFile.data, callFile))

\* every such process ends with the TypeError of serialize_object instead
C23_EndsWithTypeError ==
    (Undisturbed /\ callFile \in Files /\ nchunks[callFile] >= 1 /\ outcome # "skipped")
        => outcome = "TypeError"

\* C28: after reset() of main the checkpoint in memory and on disk is a fresh
\* one, and every call of embed_file_resumable that follows in the process
\* starts at chunk 0 with an empty map: the map holds only what the call
\* itself has embedded.
C28_ResetStartsFresh ==
    /\ pc = "main_classify" => (state = FreshState /\ ckptFile = Json(FreshState))
    /\ (mode = "main" /\ pc \in {"start", "slice", "embed", "persist"})
        => /\ start_from = 0
           /\ Keys(embeddings_data) = {sent[i] : i \in 1..Len(sent)}
           /\ get_file_progress(stateAtCall, callFile) = 0

\* C28 witness: after the reset, main embeds from chunk 0 a source that the
\* checkpoint it found had in completed_files.
C28_Witness ==
    /\ mode = "main"
    /\ pc = "slice"
    /\ start_from = 0
    /\ embeddings_data = <<>>
    /\ ckptAtLoad.kind = "json"
    /\ is_file_completed(ckptAtLoad.data, callFile)

(* ====================================================================== *)
(*   VectorStoreManager.embed_batch / embed_batch_parallel                *)
(*   (src/src/utils/util_embedding.py)                                    *)
(* ====================================================================== *)
\* largest number of input texts
MaxTexts == 4
\* largest batch_size of a call of embed_batch
MaxEmbedBatch == 2
\* largest max_workers
MaxWorkers == 2
\* largest prompt_eval_count the service answers with
MaxTokenCount == 2

\* data.get("prompt_eval_count", 0): the token count of one answer
TokenCounts == 0..MaxTokenCount

\* batches = [texts[i:i + batch_size] for i in range(0, len(texts), batch_size)]:
\* the number of batches
NumBatches == (texts + eb_batch_size - 1) \div eb_batch_size

\* texts[i:i + batch_size] for the 0-based offset i, as the sequence of the
\* vectors the service answers with (one per input, in the order of the input)
ServiceAnswer(i) == [k \in 1..(Min(i + eb_batch_size, texts) - i) |-> i + k]

\* a call with arbitrary arguments
EmbedBatchInit ==
    /\ PipelineIdle
    /\ ChunkersIdle
    /\ eb_variant \in {"embed_batch", "embed_batch_parallel"}
    /\ texts \in 0..MaxTexts
    /\ eb_batch_size \in 1..MaxEmbedBatch
    /\ max_workers \in 1..MaxWorkers
    /\ eb_pc = "start"
    /\ eb_i = 0
    /\ futures = <<>>
    /\ completion_order = <<>>
    /\ all_embeddings = <<>>
    /\ avg_tokens_bound = FALSE
    /\ eb_error = "none"
    /\ NoTokens

\* embed_batch lines 161-171: all_embeddings = [], max_tokens = -1, the totals;
\* avg_tokens is not assigned here
SeqStart ==
    /\ eb_pc = "start"
    /\ eb_variant = "embed_batch"
    /\ eb_pc' = "loop"
    /\ max_tokens' = -1
    /\ total_tokens' = 0
    /\ total_items' = 0
    /\ UNCHANGED <<eb_variant, texts, eb_batch_size, max_workers, eb_i, futures,
                   completion_order, all_embeddings, avg_tokens_bound, eb_error>>
    /\ UNCHANGED <<avg_tokens, token_counts>>
    /\ UNCHANGED embedBatchRest

\* one iteration of the loop, lines 173-204: the service answers
SeqBatch ==
    /\ eb_pc = "loop"
    /\ eb_i < texts
    /\ all_embeddings' = all_embeddings \o ServiceAnswer(eb_i)
    /\ \E tokens_this_call \in TokenCounts :
          /\ total_tokens' = total_tokens + tokens_this_call
          /\ token_counts' = Append(token_counts, tokens_this_call)
    /\ total_items' = total_items + Len(ServiceAnswer(eb_i))
    /\ avg_tokens' = IF total_items' # 0
                     THEN [num |-> total_tokens', den |-> total_items']
                     ELSE [num |-> 0, den |-> 1]
    /\ avg_tokens_bound' = TRUE
    /\ eb_i' = eb_i + eb_batch_size
    /\ UNCHANGED <<eb_variant, texts, eb_batch_size, max_workers, eb_pc, futures,
                   completion_order, eb_error, max_tokens>>
    /\ UNCHANGED embedBatchRest

\* one iteration of the loop: response.raise_for_status() raises (line 183)
SeqBatchFails ==
    /\ eb_pc = "loop"
    /\ eb_i < texts
    /\ eb_pc' = "raised"
    /\ eb_error' = "HTTPError"
    /\ UNCHANGED <<eb_variant, texts, eb_batch_size, max_workers, eb_i, futures,
                   completion_order, all_embeddings, avg_tokens_bound>>
    /\ UNCHANGED tokenVars
    /\ UNCHANGED embedBatchRest

\* line 208: return all_embeddings, avg_tokens, max_tokens, total_time.
\* Reading avg_tokens raises UnboundLocalError when no iteration assigned it.
SeqReturn ==
    /\ eb_pc = "loop"
    /\ eb_i >= texts
    /\ IF avg_tokens_bound
         THEN eb_pc' = "returned" /\ eb_error' = "none"
         ELSE eb_pc' = "raised" /\ eb_error' = "UnboundLocalError"
    /\ UNCHANGED <<eb_variant, texts, eb_batch_size, max_workers, eb_i, futures,
                   completion_order, all_embeddings, avg_tokens_bound>>
    /\ UNCHANGED tokenVars
    /\ UNCHANGED embedBatchRest


\* embed_batch_parallel lines 239-265: avg_tokens = 0, and every batch is
\* submitted to the ThreadPoolExecutor in the order of the batches
ParSubmit ==
    /\ eb_pc = "start"
    /\ eb_variant = "embed_batch_parallel"
    /\ eb_pc' = "pool"
    /\ futures' = [b \in 1..NumBatches |-> "queued"]
    /\ avg_tokens_bound' = TRUE
    /\ avg_tokens' = [num |-> 0, den |-> 1]
    /\ max_tokens' = -1
    /\ token_counts' = [b \in 1..NumBatches |-> 0]
    /\ UNCHANGED <<eb_variant, texts, eb_batch_size, max_workers, eb_i,
                   completion_order, all_embeddings, eb_error>>
    /\ UNCHANGED <<total_tokens, total_items>>
    /\ UNCHANGED embedBatchRest

Running == {b \in 1..Len(futures) : futures[b] = "running"}

\* a free worker thread takes the oldest queued batch and calls process_batch
WorkerTakes(b) ==
    /\ eb_pc = "pool"
    /\ futures[b] = "queued"
    /\ \A c \in 1..(b - 1) : futures[c] # "queued"
    /\ Cardinality(Running) < max_workers
    /\ futures' = [futures EXCEPT ![b] = "running"]
    /\ UNCHANGED <<eb_variant, texts, eb_batch_size, max_workers, eb_pc, eb_i,
                   completion_order, all_embeddings, avg_tokens_bound, eb_error>>
    /\ UNCHANGED tokenVars
    /\ UNCHANGED embedBatchRest

\* process_batch of a running batch returns (line 261); the threads finish in
\* any order
WorkerFinishes(b) ==
    /\ eb_pc = "pool"
    /\ futures[b] = "running"
    /\ futures' = [futures EXCEPT ![b] = "done"]
    /\ completion_order' = Append(completion_order, b)
    /\ \E tokens \in TokenCounts : token_counts' = [token_counts EXCEPT ![b] = tokens]
    /\ UNCHANGED <<eb_variant, texts, eb_batch_size, max_workers, eb_pc, eb_i,
                   all_embeddings, avg_tokens_bound, eb_error>>
    /\ UNCHANGED <<total_tokens, total_items, avg_tokens, max_tokens>>
    /\ UNCHANGED embedBatchRest

\* process_batch of a running batch raises (line 258)
WorkerFails(b) ==
    /\ eb_pc = "pool"
    /\ futures[b] = "running"
    /\ futures' = [futures EXCEPT ![b] = "failed"]
    /\ completion_order' = Append(completion_order, b)
    /\ UNCHANGED <<eb_variant, texts, eb_batch_size, max_workers, eb_pc, eb_i,
                   all_embeddings, avg_tokens_bound, eb_error>>
    /\ UNCHANGED tokenVars
    /\ UNCHANGED embedBatchRest

\* lines 268-270: for future in futures: future.result() waits for the next
\* future in the order of submission, whichever finished first
Collect ==
    /\ eb_pc = "pool"
    /\ eb_i < NumBatches
    /\ futures[eb_i + 1] = "done"
    /\ all_embeddings' = all_embeddings \o ServiceAnswer(eb_i * eb_batch_size)
    /\ avg_tokens' = IF token_counts[eb_i + 1] > avg_tokens.num
                     THEN [num |-> token_counts[eb_i + 1], den |-> 1]
                     ELSE avg_tokens
    /\ eb_i' = eb_i + 1
    /\ UNCHANGED <<eb_variant, texts, eb_batch_size, max_workers, eb_pc, futures,
                   completion_order, avg_tokens_bound, eb_error>>
    /\ UNCHANGED <<total_tokens, total_items, max_tokens, token_counts>>
    /\ UNCHANGED embedBatchRest

\* future.result() re-raises the exception of a failed batch
CollectRaises ==
    /\ eb_pc = "pool"
    /\ eb_i < NumBatches
    /\ futures[eb_i + 1] = "failed"
    /\ eb_pc' = "raised"
    /\ eb_error' = "HTTPError"
    /\ UNCHANGED <<eb_variant, texts, eb_batch_size, max_workers, eb_i, futures,
                   completion_order, all_embeddings, avg_tokens_bound>>
    /\ UNCHANGED tokenVars
    /\ UNCHANGED embedBatchRest

\* line 282: return all_embeddings, avg_tokens, max_tokens, total_time
ParReturn ==
    /\ eb_pc = "pool"
    /\ eb_i = NumBatches
    /\ eb_pc' = "returned"
    /\ UNCHANGED <<eb_variant, texts, eb_batch_size, max_workers, eb_i, futures,
                   completion_order, all_embeddings, avg_tokens_bound, eb_error>>
    /\ UNCHANGED tokenVars
    /\ UNCHANGED embedBatchRest

EmbedBatchNext ==
    \/ SeqStart
    \/ SeqBatch
    \/ SeqBatchFails
    \/ SeqReturn
    \/ ParSubmit
    \/ \E b \in 1..Len(futures) : WorkerTakes(b)
    \/ \E b \in 1..Len(futures) : WorkerFinishes(b)
    \/ \E b \in 1..Len(futures) : WorkerFails(b)
    \/ Collect
    \/ CollectRaises
    \/ ParReturn

\* calls of embed_batch and embed_batch_parallel with arbitrary arguments
EmbedBatchSpec == EmbedBatchInit /\ [][EmbedBatchNext]_allVars

\* C11: a call of embed_batch or embed_batch_parallel that the service did
\* not fail returns exactly len(texts) vectors, the i-th being the one the
\* service answered for the i-th text, in whatever order the worker threads
\* finished their batches.
C11_OrderPreserved ==
    (eb_pc \in {"returned", "raised"} /\ eb_error # "HTTPError")
        => /\ eb_pc = "returned"
           /\ all_embeddings = [k \in 1..texts |-> k]

\* the same for a non-empty list of texts
EmbedBatchOrderedNonEmpty ==
    (eb_pc \in {"returned", "raised"} /\ eb_error # "HTTPError" /\ texts >= 1)
        => /\ eb_pc = "returned"
           /\ all_embeddings = [k \in 1..texts |-> k]

\* a parallel call returned although a later batch finished before an earlier one
EmbedBatchOutOfOrderCompletion ==
    /\ eb_pc = "returned"
    /\ eb_variant = "embed_batch_parallel"
    /\ \E a, b \in 1..Len(completion_order) :
            a < b /\ completion_order[a] > completion_order[b]


(* ====================================================================== *)
(*   Configuration and Python strings                                     *)
(*   (src/src/utils/config.py, str methods used by the chunkers)          *)
(* ====================================================================== *)
\* largest TARGET_TOKENS and OVERLAP_TOKENS of the environment
MaxTokens == 3
\* largest MAX_TOKENS of the environment
MaxMaxTokens == 4
\* largest CHARS_PER_TOKEN of the environment
MaxCharsPerToken == 1
\* longest argument of split_paragraph_into_chunks
MaxParagraphLen == 5
\* most loop iterations of split_paragraph_into_chunks that are followed
MaxIterations == 4

\* a letter, a sentence-ending punctuation mark (. ! ?), a blank and a newline
Alphabet == {"a", ".", " ", "\n"}

Whitespace == {" ", "\n"}

Strings(n) == UNION {[1..k -> Alphabet] : k \in 0..n}

\* Config.__init__ lines 150-154: every value is taken from the environment
\* as it is; no relation between the values is checked
Environs ==
    [TARGET_TOKENS : 1..MaxTokens, MAX_TOKENS : 1..MaxMaxTokens,
     OVERLAP_TOKENS : 0..MaxTokens, CHARS_PER_TOKEN : 1..MaxCharsPerToken]

\* util_chunking_functions.py lines 5-7
TARGET_CHARS == environ.TARGET_TOKENS * environ.CHARS_PER_TOKEN
MAX_CHARS == environ.MAX_TOKENS * environ.CHARS_PER_TOKEN
OVERLAP_CHARS == environ.OVERLAP_TOKENS * environ.CHARS_PER_TOKEN

\* Config.MAX_CHUNK_SIZE, config.py line 159
MAX_CHUNK_SIZE == environ.MAX_TOKENS * environ.CHARS_PER_TOKEN

Max(a, b) == IF a > b THEN a ELSE b

SetMax(S) == CHOOSE x \in S : \A y \in S : y <= x

\* a slice index as Python clips it for a string of length n
PyIndex(i, n) == IF i < 0 THEN Max(i + n, 0) ELSE Min(i, n)

\* s[a:b]
PySlice(s, a, b) ==
    LET lo == PyIndex(a, Len(s))
        hi == PyIndex(b, Len(s))
    IN  IF lo >= hi THEN <<>> ELSE SubSeq(s, lo + 1, hi)

\* s.rfind(sub, a, b): the highest index in s[a:b] at which sub starts, or -1
rfind(s, sub, a, b) ==
    LET lo == PyIndex(a, Len(s))
        hi == PyIndex(b, Len(s))
        found == {i \in lo..(hi - Len(sub)) : SubSeq(s, i + 1, i + Len(sub)) = sub}
    IN  IF found = {} THEN -1 ELSE SetMax(found)

\* s.strip()
strip(s) ==
    LET inked == {i \in 1..Len(s) : s[i] \notin Whitespace}
    IN  IF inked = {} THEN <<>>
        ELSE SubSeq(s, CHOOSE i \in inked : \A j \in inked : i <= j, SetMax(inked))


(* ====================================================================== *)
(*   split_paragraph_into_chunks, the sliding-window chunker              *)
(*   (src/src/utils/util_chunking_functions.py lines 204-266)             *)
(* ====================================================================== *)
\* line 238: how far beyond the target a sentence end is looked for
SentenceLookahead == 200

\* a call with an arbitrary paragraph under an arbitrary environment
WindowInit ==
    /\ PipelineIdle
    /\ EmbedBatchIdle
    /\ HierIdle
    /\ BookIdle
    /\ environ \in Environs
    /\ paragraph \in Strings(MaxParagraphLen)
    /\ w_pc = "config"
    /\ start = 0
    /\ chunks = <<>>
    /\ starts = <<>>
    /\ windows = <<>>

\* Config.__init__ (config.py lines 150-159) and the module constants (lines
\* 5-7) are computed from the environment; nothing is checked and nothing is
\* raised, whatever the values are
LoadConfig ==
    /\ w_pc = "config"
    /\ w_pc' = "call"
    /\ UNCHANGED <<environ, paragraph, start, chunks, starts, windows>>
    /\ UNCHANGED windowRest

\* lines 221-222: a paragraph that fits in the target is returned as it is
WindowFits ==
    /\ w_pc = "call"
    /\ Len(paragraph) <= TARGET_CHARS
    /\ chunks' = <<paragraph>>
    /\ w_pc' = "returned"
    /\ UNCHANGED <<environ, paragraph, start, starts, windows>>
    /\ UNCHANGED windowRest

\* lines 224-225
WindowEnter ==
    /\ w_pc = "call"
    /\ Len(paragraph) > TARGET_CHARS
    /\ w_pc' = "loop"
    /\ chunks' = <<>>
    /\ start' = 0
    /\ UNCHANGED <<environ, paragraph, starts, windows>>
    /\ UNCHANGED windowRest

\* lines 229-234: the rest of the paragraph is the last chunk
WindowLast ==
    /\ w_pc = "loop"
    /\ start < Len(paragraph)
    /\ start + TARGET_CHARS >= Len(paragraph)
    /\ chunks' = Append(chunks, strip(PySlice(paragraph, start, Len(paragraph))))
    /\ starts' = Append(starts, start)
    /\ windows' = Append(windows, <<start, Len(paragraph), "last">>)
    /\ w_pc' = "returned"
    /\ UNCHANGED <<environ, paragraph, start>>
    /\ UNCHANGED windowRest

\* lines 238-243
sentence_end ==
    LET search_end == Min(start + TARGET_CHARS + SentenceLookahead, Len(paragraph))
    IN  rfind(paragraph, <<".", " ">>, start, search_end)

\* line 250
space_pos ==
    rfind(paragraph, <<" ">>, start, Min(start + MAX_CHARS, Len(paragraph)))

\* lines 245-255: which rule ends the chunk
EndRule ==
    IF sentence_end > start THEN "sentence"
    ELSE IF space_pos > start THEN "word"
    ELSE "hard"

\* lines 245-255: the end it chooses
WindowEnd ==
    IF EndRule = "sentence" THEN sentence_end + 1
    ELSE IF EndRule = "word" THEN space_pos
    ELSE Min(start + MAX_CHARS, Len(paragraph))

\* lines 259-264: the next start
NextStart(end, last_chunk) ==
    IF end - OVERLAP_CHARS <= Len(last_chunk) - OVERLAP_CHARS
        THEN end
        ELSE end - OVERLAP_CHARS

\* lines 229-264: one iteration of the loop that is not the last
WindowCut ==
    /\ w_pc = "loop"
    /\ start < Len(paragraph)
    /\ start + TARGET_CHARS < Len(paragraph)
    /\ Len(starts) < MaxIterations
    /\ LET end == WindowEnd
           chunk == strip(PySlice(paragraph, start, end))
       IN  /\ chunks' = Append(chunks, chunk)
           /\ windows' = Append(windows, <<start, end, EndRule>>)
           /\ start' = NextStart(end, chunk)
    /\ starts' = Append(starts, start)
    /\ UNCHANGED <<environ, paragraph, w_pc>>
    /\ UNCHANGED windowRest

\* line 227: the loop condition fails
WindowExit ==
    /\ w_pc = "loop"
    /\ start >= Len(paragraph)
    /\ w_pc' = "returned"
    /\ UNCHANGED <<environ, paragraph, start, chunks, starts, windows>>
    /\ UNCHANGED windowRest

WindowNext ==
    \/ LoadConfig
    \/ WindowFits
    \/ WindowEnter
    \/ WindowLast
    \/ WindowCut
    \/ WindowExit

\* calls of split_paragraph_into_chunks with arbitrary arguments
WindowSpec == WindowInit /\ [][WindowNext]_allVars

\* the configuration the sliding-window claims assume
ValidWindowConfig == OVERLAP_CHARS < TARGET_CHARS /\ TARGET_CHARS <= MAX_CHARS

\* C13: under a configuration with overlap_chars < target_chars <= max_chars
\* every chunk split_paragraph_into_chunks has appended is at most max_chars
\* long, whichever rule chose its end.
C13_WindowChunksWithinMax ==
    (ValidWindowConfig /\ w_pc \in {"loop", "returned"})
        => \A i \in 1..Len(chunks) : Len(chunks[i]) <= MAX_CHARS

\* C14: under a configuration with overlap_chars < target_chars (here also
\* target_chars <= max_chars) the start position of each loop iteration is
\* strictly greater than that of the iteration before.
C14_WindowStartAdvances ==
    (ValidWindowConfig /\ w_pc = "loop" /\ Len(starts) >= 1)
        => starts[Len(starts)] < start

\* the characters of s that are not whitespace
Inked(s) == SelectSeq(s, LAMBDA c : c \notin Whitespace)

IsPrefix(p, s) == Len(p) <= Len(s) /\ SubSeq(s, 1, Len(p)) = p

\* the last n characters of s (all of s when it is shorter)
LastChars(s, n) == IF n >= Len(s) THEN s ELSE SubSeq(s, Len(s) - n + 1, Len(s))

\* C15: for a text longer than target_chars, the last overlap_chars characters
\* of each returned chunk are the first characters of the chunk after it, up
\* to whitespace (compared here with all whitespace left out).
C15_WindowChunksOverlap ==
    (ValidWindowConfig /\ w_pc \in {"loop", "returned"} /\ Len(paragraph) > TARGET_CHARS)
        => \A i \in 1..(Len(chunks) - 1) :
               IsPrefix(Inked(LastChars(chunks[i], OVERLAP_CHARS)), Inked(chunks[i + 1]))


\* C18: a configuration with overlap_chars >= target_chars is rejected with a
\* configuration error when it is loaded, before any chunk is produced.
C18_BadOverlapRejected ==
    (OVERLAP_CHARS >= TARGET_CHARS /\ w_pc # "config")
        => (w_pc = "config_error" /\ chunks = <<>>)


(* ====================================================================== *)
(*   split_into_paragraphs, group_paragraphs_into_chunks and              *)
(*   split_oversized_paragraph, the hierarchical chunker                  *)
(*   (src/src/utils/util_chunking_functions.py lines 28-202)              *)
(* ====================================================================== *)
\* longest argument text of split_into_paragraphs
MaxDocumentLen == 5

SetMin(S) == CHOOSE x \in S : \A y \in S : x <= y

\* the last position of the run of whitespace that starts at position i
RunEnd(s, i) == SetMax({r \in i..Len(s) : \A k \in i..r : s[k] \in Whitespace})

\* r'\n\s*\n+' matched at the newline at position i: the match ends at the
\* last newline of the whitespace run (0: no match at i)
ParagraphBreakEnd(s, i) ==
    LET later == {j \in (i + 1)..RunEnd(s, i) : s[j] = "\n"}
    IN  IF later = {} THEN 0 ELSE SetMax(later)

\* re.split(r'\n\s*\n+', s), from position pos on
RECURSIVE SplitAtParagraphBreaks(_, _)
SplitAtParagraphBreaks(s, pos) ==
    LET at == {i \in pos..Len(s) : s[i] = "\n" /\ ParagraphBreakEnd(s, i) # 0}
    IN  IF at = {} THEN <<SubSeq(s, pos, Len(s))>>
        ELSE <<SubSeq(s, pos, SetMin(at) - 1)>>
                \o SplitAtParagraphBreaks(s, ParagraphBreakEnd(s, SetMin(at)) + 1)

\* [p.strip() for p in pieces if p.strip()]
RECURSIVE StripNonEmpty(_)
StripNonEmpty(pieces) ==
    IF pieces = <<>> THEN <<>>
    ELSE IF strip(Head(pieces)) = <<>> THEN StripNonEmpty(Tail(pieces))
    ELSE <<strip(Head(pieces))>> \o StripNonEmpty(Tail(pieces))

\* re.split(r'([.!?]\s+)', s), from position pos on: the texts between the
\* matches alternate with the matches themselves
RECURSIVE SplitAtSentenceEnds(_, _)
SplitAtSentenceEnds(s, pos) ==
    LET at == {i \in pos..(Len(s) - 1) : s[i] = "." /\ s[i + 1] \in Whitespace}
    IN  IF at = {} THEN <<SubSeq(s, pos, Len(s))>>
        ELSE <<SubSeq(s, pos, SetMin(at) - 1), SubSeq(s, SetMin(at), RunEnd(s, SetMin(at) + 1))>>
                \o SplitAtSentenceEnds(s, RunEnd(s, SetMin(at) + 1) + 1)

\* Variant of the sentence list: the remaining part without punctuation is
\* left out.
sentence_list_WithoutRemainder(sentences) ==
    [k \in 1..(Len(sentences) \div 2) |-> sentences[2 * k - 1] \o sentences[2 * k]]

\* split_oversized_paragraph lines 50-59: each text is joined again with the
\* punctuation after it, and the remaining part without punctuation is added
sentence_list(sentences) ==
    [k \in 1..(Len(sentences) \div 2) |-> sentences[2 * k - 1] \o sentences[2 * k]]
        \o (IF Len(sentences) % 2 = 1 THEN <<sentences[Len(sentences)]>> ELSE <<>>)

\* sep.join(parts)
RECURSIVE Join(_, _)
Join(parts, sep) ==
    IF parts = <<>> THEN <<>>
    ELSE IF Len(parts) = 1 THEN parts[1]
    ELSE parts[1] \o sep \o Join(Tail(parts), sep)

\* lines 81-83: [sentence[i:i + max_size] for i in range(0, len(sentence), max_size)]
HardSplit(sentence, max_size) ==
    [k \in 1..((Len(sentence) + max_size - 1) \div max_size) |->
        SubSeq(sentence, (k - 1) * max_size + 1, Min(k * max_size, Len(sentence)))]

\* [] or [" ".join(current_chunk)]
Flushed(cur, sep) == IF cur = <<>> THEN <<>> ELSE <<Join(cur, sep)>>

\* split_oversized_paragraph lines 65-100: the loop body for one sentence, on
\* the locals st = [chunks, current_chunk, current_size]
SentenceStep(st, raw, max_size) ==
    LET sentence == strip(raw)
        separator_size == IF st.current_chunk # <<>> THEN 1 ELSE 0
        new_size == st.current_size + separator_size + Len(sentence)
    IN  IF sentence = <<>> THEN st
        ELSE IF Len(sentence) > max_size
            THEN [chunks |-> st.chunks \o Flushed(st.current_chunk, <<" ">>)
                                \o HardSplit(sentence, max_size),
                  current_chunk |-> <<>>,
                  current_size |-> 0]
        ELSE IF new_size <= max_size
            THEN [chunks |-> st.chunks,
                  current_chunk |-> Append(st.current_chunk, sentence),
                  current_size |-> new_size]
        ELSE [chunks |-> st.chunks \o Flushed(st.current_chunk, <<" ">>),
              current_chunk |-> <<sentence>>,
              current_size |-> Len(sentence)]

RECURSIVE SentenceLoop(_, _, _)
SentenceLoop(st, list, max_size) ==
    IF list = <<>> THEN st
    ELSE SentenceLoop(SentenceStep(st, Head(list), max_size), Tail(list), max_size)

\* split_oversized_paragraph(paragraph, max_size)
split_oversized_paragraph(para, max_size) ==
    IF Len(para) <= max_size THEN <<para>>
    ELSE LET st == SentenceLoop([chunks |-> <<>>, current_chunk |-> <<>>, current_size |-> 0],
                                sentence_list(SplitAtSentenceEnds(para, 1)), max_size)
         IN  st.chunks \o Flushed(st.current_chunk, <<" ">>)


\* a call of split_into_paragraphs with an arbitrary text; of the environment
\* only MAX_TOKENS and CHARS_PER_TOKEN are read (Config.MAX_CHUNK_SIZE)
HierInit ==
    /\ PipelineIdle
    /\ EmbedBatchIdle
    /\ WindowIdle
    /\ BookIdle
    /\ environ \in {e \in Environs : e.TARGET_TOKENS = 1 /\ e.OVERLAP_TOKENS = 0}
    /\ document \in Strings(MaxDocumentLen)
    /\ h_pc = "call"
    /\ paragraphs = <<>>
    /\ para_idx = 0
    /\ out_chunks = <<>>
    /\ current_chunk = <<>>
    /\ current_size = 0
    /\ branches = {}

\* lines 186-187: if not text: return []
SplitEmpty ==
    /\ h_pc = "call"
    /\ document = <<>>
    /\ h_pc' = "returned"
    /\ out_chunks' = <<>>
    /\ UNCHANGED <<environ, document, paragraphs, para_idx, current_chunk, current_size, branches>>
    /\ UNCHANGED hierRest

\* lines 189-193: a text that fits in one chunk is returned stripped
SplitWhole ==
    /\ h_pc = "call"
    /\ document # <<>>
    /\ Len(document) <= MAX_CHUNK_SIZE
    /\ h_pc' = "returned"
    /\ out_chunks' = <<strip(document)>>
    /\ UNCHANGED <<environ, document, paragraphs, para_idx, current_chunk, current_size, branches>>
    /\ UNCHANGED hierRest

\* lines 196-200: the text is split into paragraphs, which are handed to
\* group_paragraphs_into_chunks (lines 128-133 set its locals)
SplitToParagraphs ==
    /\ h_pc = "call"
    /\ Len(document) > MAX_CHUNK_SIZE
    /\ paragraphs' = StripNonEmpty(SplitAtParagraphBreaks(document, 1))
    /\ h_pc' = "group"
    /\ para_idx' = 0
    /\ out_chunks' = <<>>
    /\ current_chunk' = <<>>
    /\ current_size' = 0
    /\ UNCHANGED <<environ, document, branches>>
    /\ UNCHANGED hierRest

\* the paragraph the loop of group_paragraphs_into_chunks takes next
NextParagraph == paragraphs[para_idx + 1]

\* Variant of the size computation: the separator is not counted.
GroupNewSize_SeparatorNotCounted == current_size + Len(NextParagraph)

\* lines 153-154: the size of the current chunk with the paragraph added
GroupNewSize ==
    LET separator_size == IF current_chunk # <<>> THEN 2 ELSE 0
    IN  current_size + separator_size + Len(NextParagraph)

\* lines 139-149: a paragraph longer than max_size is split on its own
GroupOversized ==
    /\ h_pc = "group"
    /\ para_idx < Len(paragraphs)
    /\ Len(NextParagraph) > MAX_CHUNK_SIZE
    /\ out_chunks' = out_chunks \o Flushed(current_chunk, <<"\n", "\n">>)
                        \o split_oversized_paragraph(NextParagraph, MAX_CHUNK_SIZE)
    /\ current_chunk' = <<>>
    /\ current_size' = 0
    /\ para_idx' = para_idx + 1
    /\ branches' = branches \cup {"oversized"}
    /\ UNCHANGED <<environ, document, h_pc, paragraphs>>
    /\ UNCHANGED hierRest

\* lines 156-159: the paragraph fits into the current chunk
GroupFits ==
    /\ h_pc = "group"
    /\ para_idx < Len(paragraphs)
    /\ Len(NextParagraph) <= MAX_CHUNK_SIZE
    /\ GroupNewSize <= MAX_CHUNK_SIZE
    /\ current_chunk' = Append(current_chunk, NextParagraph)
    /\ current_size' = GroupNewSize
    /\ para_idx' = para_idx + 1
    /\ branches' = branches \cup (IF current_chunk # <<>> THEN {"joined"} ELSE {})
    /\ UNCHANGED <<environ, document, h_pc, paragraphs, out_chunks>>
    /\ UNCHANGED hierRest

\* lines 160-166: it does not fit, the current chunk is closed
GroupStartsNew ==
    /\ h_pc = "group"
    /\ para_idx < Len(paragraphs)
    /\ Len(NextParagraph) <= MAX_CHUNK_SIZE
    /\ GroupNewSize > MAX_CHUNK_SIZE
    /\ out_chunks' = out_chunks \o Flushed(current_chunk, <<"\n", "\n">>)
    /\ current_chunk' = <<NextParagraph>>
    /\ current_size' = Len(NextParagraph)
    /\ para_idx' = para_idx + 1
    /\ branches' = branches \cup {"closed"}
    /\ UNCHANGED <<environ, document, h_pc, paragraphs>>
    /\ UNCHANGED hierRest

\* lines 125-126 and 168-172: the final chunk is added and the list returned
\* (an empty list of paragraphs returns [])
GroupReturn ==
    /\ h_pc = "group"
    /\ para_idx = Len(paragraphs)
    /\ out_chunks' = out_chunks \o Flushed(current_chunk, <<"\n", "\n">>)
    /\ current_chunk' = <<>>
    /\ h_pc' = "returned"
    /\ UNCHANGED <<environ, document, paragraphs, para_idx, current_size, branches>>
    /\ UNCHANGED hierRest

HierNext ==
    \/ SplitEmpty
    \/ SplitWhole
    \/ SplitToParagraphs
    \/ GroupOversized
    \/ GroupFits
    \/ GroupStartsNew
    \/ GroupReturn

\* calls of split_into_paragraphs with arbitrary arguments
HierSpec == HierInit /\ [][HierNext]_allVars

\* C12: every chunk split_into_paragraphs / group_paragraphs_into_chunks has
\* produced, the pieces of split_oversized_paragraph included, is at most the
\* maximum chunk size long, separators counted.
C12_HierChunksWithinMax ==
    \A i \in 1..Len(out_chunks) : Len(out_chunks[i]) <= MAX_CHUNK_SIZE

\* a text longer than the maximum whose paragraphs were joined into a chunk
\* of exactly the maximum size
C12_Witness ==
    /\ h_pc = "returned"
    /\ "joined" \in branches
    /\ Len(document) > MAX_CHUNK_SIZE
    /\ \E i \in 1..Len(out_chunks) : Len(out_chunks[i]) = MAX_CHUNK_SIZE

\* C16: the chunks split_into_paragraphs returns, concatenated in order, are
\* the text up to whitespace: no other character is dropped, duplicated or
\* moved.
C16_HierNoDataLoss ==
    h_pc = "returned" => Inked(Join(out_chunks, <<>>)) = Inked(document)

\* a text whose oversized paragraph went through split_oversized_paragraph
\* and came back in several chunks
C16_Witness ==
    /\ h_pc = "returned"
    /\ "oversized" \in branches
    /\ Len(out_chunks) >= 2
    /\ \E i \in 1..Len(document) : document[i] = "."

\* C27: split_into_paragraphs returns no chunk for an empty text and, for
\* every text, never returns a chunk of length zero.
C27_HierChunksNonEmpty ==
    h_pc = "returned"
        => /\ document = <<>> => out_chunks = <<>>
           /\ \A i \in 1..Len(out_chunks) : out_chunks[i] # <<>>

\* texts longer than the maximum chunk size never give an empty chunk
C27_NonEmptyWhenSplit ==
    (h_pc = "returned" /\ Len(document) > MAX_CHUNK_SIZE)
        => \A i \in 1..Len(out_chunks) : out_chunks[i] # <<>>

\* ---------------------------------------------------------------------------
\* The book chunker: BookChunker.chunk_chapter and process_all_books
\* (src/ingestion/books/pass_08_book_chunker.py). Its sizes are fixed in
\* __init__; texts of thousands of characters are represented by their
\* lengths, which is all the size arithmetic of the code reads.
\* ---------------------------------------------------------------------------

\* BookChunker.__init__ lines 30-33
BookChunker_CHARS_PER_TOKEN == 4
BookChunker_TARGET_TOKENS == 1000
BookChunker_MAX_TOKENS == 2000
BookChunker_OVERLAP_TOKENS == 100

\* lines 35-37
BookChunker_TARGET_CHARS == BookChunker_TARGET_TOKENS * BookChunker_CHARS_PER_TOKEN
BookChunker_MAX_CHARS == BookChunker_MAX_TOKENS * BookChunker_CHARS_PER_TOKEN
BookChunker_OVERLAP_CHARS == BookChunker_OVERLAP_TOKENS * BookChunker_CHARS_PER_TOKEN

\* most paragraphs of a chapter, most sentences of a paragraph
MaxBookParagraphs == 2
MaxSentences == 2

\* lengths of a sentence text: one character, exactly the maximum, one more
SentenceLengths == {1, BookChunker_MAX_CHARS, BookChunker_MAX_CHARS + 1}

\* length of a sentence end matched by [.!?]+\s+ : a mark and a blank
DelimiterLength == 2

\* re.split(r'([.!?]+\s+)', paragraph) of a stripped paragraph of n sentences:
\* texts at the odd places, the captured sentence ends at the even ones; a
\* text before a sentence end may be empty, the last one is not (the paragraph
\* does not end in whitespace)
SplitResults(n) ==
    {p \in [1..(2 * n - 1) -> SentenceLengths \cup {0, DelimiterLength}] :
        /\ p[2 * n - 1] \in SentenceLengths
        /\ \A k \in 1..(2 * n - 1) :
              IF k % 2 = 0 THEN p[k] = DelimiterLength ELSE p[k] \in SentenceLengths \cup {0}}

\* the paragraphs split_into_paragraphs (lines 67-83) can return
BookParagraphs == UNION {SplitResults(n) : n \in 1..MaxSentences}

\* the chapters: the lists of at most MaxBookParagraphs paragraphs
Chapters == UNION {[1..n -> BookParagraphs] : n \in 0..MaxBookParagraphs}

RECURSIVE Sum(_)
Sum(lens) == IF lens = <<>> THEN 0 ELSE Head(lens) + Sum(Tail(lens))

\* len(sep.join(items)) for a separator of sep_len characters
JoinedLength(items, sep_len) ==
    IF items = <<>> THEN 0 ELSE Sum(items) + sep_len * (Len(items) - 1)

\* len(text[-OVERLAP_CHARS:]) for a text of n characters
OverlapLength(n) == Min(n, BookChunker_OVERLAP_CHARS)

\* lines 131-143: one pass of the sentence loop over a part of the paragraph;
\* st holds chunks, temp_chunk and temp_length
BookSentenceStep(st, sentence) ==
    IF sentence = 0
    THEN st
    ELSE IF st.temp_length + sentence > BookChunker_MAX_CHARS /\ st.temp_chunk # <<>>
         THEN LET overlap_text == OverlapLength(JoinedLength(st.temp_chunk, 0))
              IN  [chunks      |-> Append(st.chunks, JoinedLength(st.temp_chunk, 0)),
                   temp_chunk  |-> <<overlap_text, sentence>>,
                   temp_length |-> overlap_text + sentence]
         ELSE [chunks      |-> st.chunks,
               temp_chunk  |-> Append(st.temp_chunk, sentence),
               temp_length |-> st.temp_length + sentence]

\* lines 127-146: the sentence loop and the last chunk of the paragraph
RECURSIVE BookSentenceLoop(_, _)
BookSentenceLoop(st, sentences) ==
    IF sentences = <<>>
    THEN IF st.temp_chunk # <<>>
         THEN Append(st.chunks, JoinedLength(st.temp_chunk, 0))
         ELSE st.chunks
    ELSE BookSentenceLoop(BookSentenceStep(st, Head(sentences)), Tail(sentences))

\* process_all_books is called for a book of one chapter
BookInit ==
    /\ PipelineIdle
    /\ EmbedBatchIdle
    /\ environ = NoEnviron
    /\ WindowIdle
    /\ HierIdle
    /\ chapter \in Chapters
    /\ b_pc = "chunk_chapter"
    /\ b_i = 0
    /\ book_chunks = <<>>
    /\ current_chunk_text = <<>>
    /\ current_chunk_length = 0
    /\ output_file = NoOutputFile
    /\ b_branches = {}

\* lines 101-109: no content or no paragraphs, chunk_chapter returns []
BookNoParagraphs ==
    /\ b_pc = "chunk_chapter"
    /\ chapter = <<>>
    /\ b_pc' = "chunked"
    /\ UNCHANGED <<chapter, b_i, book_chunks, current_chunk_text,
                   current_chunk_length, output_file, b_branches>>
    /\ UNCHANGED bookRest

\* lines 115-116: the paragraph the loop takes and its length
BookParagraph == chapter[b_i + 1]
para_length == Sum(BookParagraph)

\* lines 119-148: a paragraph longer than MAX_CHARS is split at sentence ends
BookOversized ==
    /\ b_pc = "chunk_chapter"
    /\ b_i < Len(chapter)
    /\ para_length > BookChunker_MAX_CHARS
    /\ LET saved == IF current_chunk_text # <<>>
                    THEN Append(book_chunks, JoinedLength(current_chunk_text, 2))
                    ELSE book_chunks
       IN  book_chunks' = BookSentenceLoop(
               [chunks |-> saved, temp_chunk |-> <<>>, temp_length |-> 0],
               BookParagraph)
    /\ current_chunk_text' = <<>>
    /\ current_chunk_length' = 0
    /\ b_i' = b_i + 1
    /\ b_branches' = b_branches \cup {"oversized"}
    /\ UNCHANGED <<chapter, b_pc, output_file>>
    /\ UNCHANGED bookRest

\* lines 150-157: the target is passed, the current chunk is saved and the
\* next one starts with its last OVERLAP_CHARS characters and the paragraph
BookTargetPassed ==
    /\ b_pc = "chunk_chapter"
    /\ b_i < Len(chapter)
    /\ para_length <= BookChunker_MAX_CHARS
    /\ current_chunk_length + para_length > BookChunker_TARGET_CHARS
    /\ current_chunk_text # <<>>
    /\ LET overlap_text == OverlapLength(JoinedLength(current_chunk_text, 2))
       IN  /\ book_chunks' = Append(book_chunks, JoinedLength(current_chunk_text, 2))
           /\ current_chunk_text' = <<overlap_text, para_length>>
           /\ current_chunk_length' = overlap_text + para_length
    /\ b_i' = b_i + 1
    /\ b_branches' = b_branches \cup {"overlap"}
    /\ UNCHANGED <<chapter, b_pc, output_file>>
    /\ UNCHANGED bookRest

\* lines 159-162: the paragraph is added to the current chunk
BookAdded ==
    /\ b_pc = "chunk_chapter"
    /\ b_i < Len(chapter)
    /\ para_length <= BookChunker_MAX_CHARS
    /\ ~(current_chunk_length + para_length > BookChunker_TARGET_CHARS /\ current_chunk_text # <<>>)
    /\ current_chunk_text' = Append(current_chunk_text, para_length)
    /\ current_chunk_length' = current_chunk_length + para_length
    /\ b_i' = b_i + 1
    /\ b_branches' = b_branches \cup {"added"}
    /\ UNCHANGED <<chapter, b_pc, book_chunks, output_file>>
    /\ UNCHANGED bookRest

\* lines 164-195: the last chunk is saved and the chunk objects are returned
BookLastChunk ==
    /\ b_pc = "chunk_chapter"
    /\ chapter # <<>>
    /\ b_i = Len(chapter)
    /\ book_chunks' = IF current_chunk_text # <<>>
                      THEN Append(book_chunks, JoinedLength(current_chunk_text, 2))
                      ELSE book_chunks
    /\ current_chunk_text' = <<>>
    /\ b_pc' = "chunked"
    /\ UNCHANGED <<chapter, b_i, current_chunk_length, output_file, b_branches>>
    /\ UNCHANGED bookRest

\* process_all_books lines 262-268: every chunk is written to book_chunks.jsonl
BookSave ==
    /\ b_pc = "chunked"
    /\ output_file' = [exists |-> TRUE, sizes |-> book_chunks]
    /\ b_pc' = "saved"
    /\ UNCHANGED <<chapter, b_i, book_chunks, current_chunk_text,
                   current_chunk_length, b_branches>>
    /\ UNCHANGED bookRest

\* print_statistics lines 274-316 and main lines 337-338: the sizes are
\* printed with "Max allowed", nothing is compared and nothing is raised
BookStatistics ==
    /\ b_pc = "saved"
    /\ book_chunks # <<>>
    /\ b_pc' = "finished"
    /\ UNCHANGED <<chapter, b_i, book_chunks, current_chunk_text,
                   current_chunk_length, output_file, b_branches>>
    /\ UNCHANGED bookRest

\* print_statistics line 295: sum(chunk_sizes) / len(chunk_sizes) with no chunk
BookStatisticsRaises ==
    /\ b_pc = "saved"
    /\ book_chunks = <<>>
    /\ b_pc' = "ZeroDivisionError"
    /\ UNCHANGED <<chapter, b_i, book_chunks, current_chunk_text,
                   current_chunk_length, output_file, b_branches>>
    /\ UNCHANGED bookRest

BookNext ==
    \/ BookNoParagraphs
    \/ BookOversized
    \/ BookTargetPassed
    \/ BookAdded
    \/ BookLastChunk
    \/ BookSave
    \/ BookStatistics
    \/ BookStatisticsRaises

BookSpec == BookInit /\ [][BookNext]_allVars

\* C17: when a chunking pass has produced a chunk longer than the maximum
\* chunk size, the pass does not finish normally and the chunk is not in the
\* chunk file the embedding stage reads.
C17_OversizedChunkIsFatal ==
    (\E i \in 1..Len(book_chunks) : book_chunks[i] > BookChunker_MAX_CHARS)
        => /\ b_pc # "finished"
           /\ \A j \in 1..Len(output_file.sizes) : output_file.sizes[j] <= BookChunker_MAX_CHARS

\* C29: every chunk chunk_chapter emits has at most MAX_CHARS characters, a
\* chunk that starts with the overlap of the previous one and a chunk built
\* from the sentences of an oversized paragraph included.
C29_BookChunksWithinMax ==
    \A i \in 1..Len(book_chunks) : book_chunks[i] <= BookChunker_MAX_CHARS

\* chunks of chapters whose paragraphs and sentences are all short
C29_WithinMaxForShortSentences ==
    (\A k \in 1..Len(chapter) : \A j \in 1..Len(chapter[k]) : chapter[k][j] < BookChunker_TARGET_CHARS)
        => \A i \in 1..Len(book_chunks) : book_chunks[i] <= BookChunker_MAX_CHARS

\* ---------------------------------------------------------------------------
\* Token statistics of embed_batch (util_embedding.py lines 161-208)
\* ---------------------------------------------------------------------------

\* C25: the max_tokens embed_batch returns is the largest token count the
\* service returned over the calls made for the input.
C25_MaxTokensIsLargestCount ==
    (eb_pc = "returned" /\ eb_variant = "embed_batch")
        => max_tokens = SetMax({token_counts[k] : k \in 1..Len(token_counts)})

\* what the code returns: the value max_tokens was initialised with
C25_MaxTokensNeverUpdated ==
    eb_pc = "returned" => max_tokens = -1

\* C26: the avg_tokens embed_batch returns is the sum of the token counts of
\* the service calls divided by the number of calls.
C26_AverageOverCalls ==
    (eb_pc = "returned" /\ eb_variant = "embed_batch")
        => avg_tokens.num * Len(token_counts) = Sum(token_counts) * avg_tokens.den

\* what the code returns: the sum divided by the number of texts embedded
C26_AverageOverItems ==
    (eb_pc = "returned" /\ eb_variant = "embed_batch")
        => avg_tokens.num * texts = Sum(token_counts) * avg_tokens.den

=============================================================================
